---- MODULE Spec2Model ----
(***************************************************************************)
(* bcbio.chipseq: peak-calling orchestration (peaks.py) and the ATAC-seq   *)
(* complexity / fragment-split / ataqv steps (atac.py).                    *)
(*                                                                         *)
(* Python dictionaries are functions with a string domain; a key that is   *)
(* not set is not in the DOMAIN.  Python strings that the code iterates or *)
(* searches are sequences of one-character strings.                        *)
(***************************************************************************)
EXTENDS Integers, Sequences, FiniteSets, TLC

VARIABLES
    \* peaks.py: peakcall_preparation
    data,                \* the collection of sample groups (each group's [0])
    to_process,          \* the tasks prepared so far
    after_process,       \* what run_parallel returned
    dispatched,          \* the argument of each run_parallel invocation, in order
    ppc,                 \* position in peakcall_preparation
    \* atac.py: calculate_encode_complexity_metrics
    counts,              \* the tallies <<mt, m0, m1, m2>> of the awk program
    m_data,              \* the sample record passed in (its atac namespace)
    m_file,              \* the lines of the metrics file, <<>> before it is written
    m_result,            \* what calculate_encode_complexity_metrics returned
    mpc,
    \* atac.py: the split_ATAC filter applied to one alignment
    tlen,                \* the alignment's template length
    selected,            \* the labels of the ranges whose filter selects it
    rpc,
    \* atac.py: calculate_complexity_metrics, split_ATAC and run_ataqv, run
    \* by the processes of the pipeline on one sample
    stage,               \* the operation of the pipeline stage being run
    fs,                  \* the file at each final output path
    indexed,             \* the range BAMs that have an index
    pc,                  \* each process's position
    lab,                 \* split_ATAC: the position in ATACRanges.values()
    tx,                  \* the temporary file of the process's open transaction
    invoked,             \* the external calls of the process's current invocation
    call,                \* the operation the process runs and its inputs
    split_files,         \* split_ATAC's split_files
    ret                  \* what the process's last invocation returned

peaksVars == <<data, to_process, after_process, dispatched, ppc>>

metricsVars == <<counts, m_data, m_file, m_result, mpc>>

rangeVars == <<tlen, selected, rpc>>

atacVars == <<stage, fs, indexed, pc, lab, tx, invoked, call, split_files, ret>>

vars == <<peaksVars, metricsVars, rangeVars, atacVars>>

---------------------------------------------------------------------------
(* Bounds *)

MaxSamples == 3

\* the largest tally in a metrics row
MaxCount == 11

\* the largest template length, of either sign
MaxTLen == 620

---------------------------------------------------------------------------
(* Dictionaries *)

\* d[key] = val on a dict
Assoc(d, key, val) ==
    [f \in (DOMAIN d) \cup {key} |-> IF f = key THEN val ELSE d[f]]

\* d.get(key, default)
Get(d, key, default) == IF key \in DOMAIN d THEN d[key] ELSE default

---------------------------------------------------------------------------
(* Sample records *)

B1  == <<"b", "1">>
B10 == <<"b", "1", "0">>

SampleNames == <<"s1", "s2", "s3", "s4", "s5">>
WorkBams == <<"s1.bam", "s2.bam", "s3.bam", "s4.bam", "s5.bam">>

\* metadata.batch is one batch id (a string: kind "str", val holds it alone)
\* or a list of batch ids (kind "list")
StrBatch(b) == [kind |-> "str", val |-> <<b>>]
ListBatch(l) == [kind |-> "list", val |-> l]

Base(i, phenotype, batch) ==
    [name |-> SampleNames[i], work_bam |-> WorkBams[i],
     phenotype |-> phenotype, batch |-> batch]

\* A signal sample carries one batch id; algorithm.peakcaller is a list of
\* caller names or is not set; a peaks_file of an earlier run may be there.
ChipSamples(i) ==
    LET base(b) == Base(i, "chip", StrBatch(b))
    IN  UNION {
          { base(b),
            Assoc(base(b), "peakcaller", <<"macs2">>),
            Assoc(Assoc(base(b), "peakcaller", <<"macs2">>), "peaks_file", "old"),
            Assoc(base(b), "peakcaller", <<"macs2", "macs2">>),
            Assoc(Assoc(base(b), "peakcaller", <<"other">>), "peaks_file", "old") }
          : b \in {B1, B10} }

\* A control carries one batch id or a list of them.
InputSamples(i) ==
    { Assoc(Base(i, "input", batch), "peakcaller", <<"macs2">>)
      : batch \in { StrBatch(B1), StrBatch(B10),
                    ListBatch(<<B1>>), ListBatch(<<B10, B1>>) } }

OtherSamples(i) ==
    { Assoc(Base(i, "", ListBatch(<<B1>>)), "peakcaller", <<"macs2">>) }

Samples(i) == ChipSamples(i) \cup InputSamples(i) \cup OtherSamples(i)

\* the collections of n sample groups
RECURSIVE CollectionsOf(_)
CollectionsOf(n) ==
    IF n = 0 THEN { <<>> }
    ELSE { Append(d, s) : d \in CollectionsOf(n - 1), s \in Samples(n) }

Collections == UNION { CollectionsOf(n) : n \in 0..MaxSamples }

---------------------------------------------------------------------------
(* peaks.py *)

\* get_callers(): the keys of the registry
get_callers == {"macs2"}

\* The default of .get("peakcaller", "macs2") is the string "macs2"; the for
\* loop iterates a string character by character.
DefaultPeakcaller == <<"m", "a", "c", "s", "2">>

\* dd.get_phenotype on the loop variable mimic, which is the dict copy, then
\* the list [sample] or None that _get_paired_samples returned; the lookup
\* through a list or None yields the default "".
get_phenotype(mimic) ==
    IF mimic.kind = "dict" THEN mimic.val.phenotype ELSE ""

\* needle in haystack, both strings
IsSubstring(needle, hay) ==
    \E k \in 0..(Len(hay) - Len(needle)) :
        \A c \in 1..Len(needle) : hay[k + c] = needle[c]

\* dd.get_batch(sample) in dd.get_batch(origin[0]), sample's batch a string
BatchIn(b, container) ==
    IF container.kind = "list"
    THEN \E k \in 1..Len(container.val) : container.val[k] = b.val[1]
    ELSE IsSubstring(b.val[1], container.val[1])

\* the test of line 66
IsPairedOrigin(sample, origin) ==
    BatchIn(sample.batch, origin.batch) /\ origin.phenotype = "input"

\* _get_paired_samples: the scan, from group j on
RECURSIVE PairedScan(_, _, _)
PairedScan(sample, d, j) ==
    IF j > Len(d) THEN [kind |-> "None"]
    ELSE IF IsPairedOrigin(sample, d[j])
         THEN [kind |-> "list",
               val |-> Assoc(sample, "work_bam_input", d[j].work_bam)]
         ELSE PairedScan(sample, d, j + 1)

_get_paired_samples(sample, d) == PairedScan(sample, d, 1)

\* the test of line 24
IsCallable(caller, mimic) ==
    caller \in get_callers /\ get_phenotype(mimic) = "chip"

\* the inner loop of peakcall_preparation over the sample's callers
RECURSIVE CallerLoop(_, _, _, _, _)
CallerLoop(callers, k, mimic, d, acc) ==
    IF k > Len(callers) THEN acc
    ELSE IF IsCallable(callers[k], mimic)
         THEN LET tagged == Assoc(mimic.val, "peak_fn", callers[k])
                  paired == _get_paired_samples(tagged, d)
              IN  CallerLoop(callers, k + 1, paired, d,
                             IF paired.kind # "None"
                             THEN Append(acc, paired.val) ELSE acc)
         ELSE CallerLoop(callers, k + 1, mimic, d, acc)

\* the outer loop: to_process after the samples from i on
RECURSIVE SampleLoop(_, _, _)
SampleLoop(d, i, acc) ==
    IF i > Len(d) THEN acc
    ELSE SampleLoop(d, i + 1,
             CallerLoop(Get(d[i], "peakcaller", DefaultPeakcaller), 1,
                        [kind |-> "dict", val |-> d[i]], d, acc))

\* a slip: run_parallel called whether or not a task was prepared
ShouldDispatch_Always(tasks) == TRUE

\* line 32
ShouldDispatch(tasks) == tasks # <<>>

\* calling(data): data["peaks_file"] = out_file, out_file the caller's return
calling(task, out_file) == Assoc(task, "peaks_file", out_file)

\* what the caller (macs2.run) may return
PeakOutputs == {"error", "new"}

\* a slip: the result merged whatever it holds
ShouldOverwrite_Always(peaks_file) == TRUE

\* line 58
ShouldOverwrite(peaks_file) == peaks_file # "error"

\* line 57
SameSample(original_sample, processs_sample) ==
    original_sample.name = processs_sample.name

\* _sync: the inner loop for one original sample, from result j on
RECURSIVE SyncInner(_, _, _)
SyncInner(original_sample, processed, j) ==
    IF j > Len(processed) THEN original_sample
    ELSE SyncInner(
             IF /\ SameSample(original_sample, processed[j])
                /\ ShouldOverwrite(processed[j].peaks_file)
             THEN Assoc(original_sample, "peaks_file", processed[j].peaks_file)
             ELSE original_sample,
             processed, j + 1)

_sync(original, processed) ==
    [i \in 1..Len(original) |-> SyncInner(original[i], processed, 1)]

PeaksInit ==
    /\ stage = "off" /\ fs = <<>> /\ indexed = {} /\ pc = <<>> /\ lab = <<>> /\ tx = <<>>
    /\ invoked = <<>> /\ call = <<>> /\ split_files = <<>> /\ ret = <<>>
    /\ counts = <<0, 0, 0, 0>> /\ m_data = <<>> /\ m_file = <<>>
    /\ m_result = [kind |-> "none"] /\ mpc = "off"
    /\ tlen = 0 /\ selected = {} /\ rpc = "off"
    /\ data \in Collections
    /\ to_process = <<>>
    /\ after_process = <<>>
    /\ dispatched = <<>>
    /\ ppc = "start"

\* lines 19-31
Prepare ==
    /\ ppc = "start"
    /\ to_process' = SampleLoop(data, 1, <<>>)
    /\ ppc' = "prepared"
    /\ UNCHANGED <<data, after_process, dispatched>>
    /\ UNCHANGED <<metricsVars, rangeVars, atacVars>>

\* line 33: run_parallel runs calling on every task
Dispatch ==
    /\ ppc = "prepared"
    /\ ShouldDispatch(to_process)
    /\ \E outs \in [1..Len(to_process) -> PeakOutputs] :
          after_process' =
              [k \in 1..Len(to_process) |-> calling(to_process[k], outs[k])]
    /\ dispatched' = Append(dispatched, to_process)
    /\ ppc' = "dispatched"
    /\ UNCHANGED <<data, to_process>>
    /\ UNCHANGED <<metricsVars, rangeVars, atacVars>>

\* line 34
Sync ==
    /\ ppc = "dispatched"
    /\ data' = _sync(data, after_process)
    /\ ppc' = "done"
    /\ UNCHANGED <<to_process, after_process, dispatched>>
    /\ UNCHANGED <<metricsVars, rangeVars, atacVars>>

\* lines 32, 35: nothing to process
ReturnUnprocessed ==
    /\ ppc = "prepared"
    /\ ~ShouldDispatch(to_process)
    /\ ppc' = "done"
    /\ UNCHANGED <<data, to_process, after_process, dispatched>>
    /\ UNCHANGED <<metricsVars, rangeVars, atacVars>>

PeaksNext == Prepare \/ Dispatch \/ Sync \/ ReturnUnprocessed

SpecPeaks == PeaksInit /\ [][PeaksNext]_vars

---------------------------------------------------------------------------
(* atac.py: the metrics file and calculate_encode_complexity_metrics *)

Digits == <<"0", "1", "2", "3", "4", "5", "6", "7", "8", "9">>

\* printf "%d"
RECURSIVE FormatInt(_)
FormatInt(n) ==
    IF n < 10 THEN << Digits[n + 1] >>
    ELSE FormatInt(n \div 10) \o << Digits[(n % 10) + 1] >>

DigitValue(c) == CHOOSE v \in 0..9 : Digits[v + 1] = c

\* int(v) on a string of decimal digits
RECURSIVE ParseInt(_)
ParseInt(str) ==
    IF Len(str) = 1 THEN DigitValue(str[1])
    ELSE 10 * ParseInt(SubSeq(str, 1, Len(str) - 1)) + DigitValue(str[Len(str)])

\* line 40: the header line
HeaderLine ==
    <<"m", "t", ",", "m", "0", ",", "m", "1", ",", "m", "2", "\n">>

\* line 46: printf "%d,%d,%d,%d\n", mt,m0,m1,m2
RowLine(row) ==
    FormatInt(row[1]) \o <<",">> \o FormatInt(row[2]) \o <<",">> \o
    FormatInt(row[3]) \o <<",">> \o FormatInt(row[4]) \o <<"\n">>

Whitespace == {" ", "\n", "\t"}

\* str.strip()
RECURSIVE Strip(_)
Strip(str) ==
    IF str = <<>> THEN str
    ELSE IF str[1] \in Whitespace THEN Strip(Tail(str))
    ELSE IF str[Len(str)] \in Whitespace
         THEN Strip(SubSeq(str, 1, Len(str) - 1))
         ELSE str

\* str.split(","): the fields of str, cur the field being read
RECURSIVE SplitFrom(_, _, _)
SplitFrom(str, k, cur) ==
    IF k > Len(str) THEN << cur >>
    ELSE IF str[k] = "," THEN << cur >> \o SplitFrom(str, k + 1, <<>>)
    ELSE SplitFrom(str, k + 1, Append(cur, str[k]))

Split(str) == SplitFrom(str, 1, <<>>)

\* a / b on ints: the quotient, kept as the fraction
TrueDiv(a, b) == [num |-> a, den |-> b]

\* line 61: {h: int(v) for h, v in zip(header, values)}
RawMetrics(header, values) ==
    LET n == IF Len(header) < Len(values) THEN Len(header) ELSE Len(values)
    IN  [h \in { header[k] : k \in 1..n } |->
            ParseInt(values[CHOOSE k \in 1..n :
                              /\ header[k] = h
                              /\ \A l \in (k + 1)..n : header[l] # h])]

Kmt == <<"m", "t">>
Km0 == <<"m", "0">>
Km1 == <<"m", "1">>
Km2 == <<"m", "2">>

\* lines 64-67
PBC2Of(raw) ==
    IF raw[Km2] = 0 THEN TrueDiv(0, 1) ELSE TrueDiv(raw[Km1], raw[Km2])

\* a slip: the two ratios of line 62-63 exchanged
RatiosOf_Swapped(raw) ==
    [kind |-> "metrics",
     PBC1 |-> TrueDiv(raw[Km0], raw[Kmt]),
     NRF |-> TrueDiv(raw[Km1], raw[Km0])]

\* lines 62-63
RatiosOf(raw) ==
    [kind |-> "metrics",
     PBC1 |-> TrueDiv(raw[Km1], raw[Km0]),
     NRF |-> TrueDiv(raw[Km0], raw[Kmt])]

\* lines 53-69; a division by zero raises
calculate_encode_complexity_metrics(d, file) ==
    IF "complexity_metrics_file" \notin DOMAIN d
    THEN [kind |-> "empty"]
    ELSE LET header == Split(Strip(file[1]))
             values == Split(Strip(file[2]))
             raw == RawMetrics(header, values)
         IN  IF raw[Km0] = 0 \/ raw[Kmt] = 0
             THEN [kind |-> "ZeroDivisionError"]
             ELSE Assoc(RatiosOf(raw), "PBC2", PBC2Of(raw))

\* the rows a metrics file may hold
Rows ==
    { r \in (0..MaxCount) \X (0..MaxCount) \X (0..MaxCount) \X (0..MaxCount) :
        r[3] <= r[2] /\ r[2] <= r[1] /\ r[4] <= r[2] }

MetricsInit ==
    /\ stage = "off" /\ fs = <<>> /\ indexed = {} /\ pc = <<>> /\ lab = <<>> /\ tx = <<>>
    /\ invoked = <<>> /\ call = <<>> /\ split_files = <<>> /\ ret = <<>>
    /\ data = <<>> /\ to_process = <<>> /\ after_process = <<>>
    /\ dispatched = <<>> /\ ppc = "off"
    /\ tlen = 0 /\ selected = {} /\ rpc = "off"
    /\ counts \in Rows
    /\ m_data = [name |-> "s1"]
    /\ m_file = <<>>
    /\ m_result = [kind |-> "none"]
    /\ mpc = "start"

\* calculate_complexity_metrics, lines 38-50: the file written and recorded
WriteMetrics ==
    /\ mpc = "start"
    /\ m_file = <<>>
    /\ m_file' = << HeaderLine, RowLine(counts) >>
    /\ m_data' = Assoc(m_data, "complexity_metrics_file", "atac-metrics.csv")
    /\ UNCHANGED <<counts, m_result, mpc>>
    /\ UNCHANGED <<peaksVars, rangeVars, atacVars>>

EncodeMetrics ==
    /\ mpc = "start"
    /\ m_result' = calculate_encode_complexity_metrics(m_data, m_file)
    /\ mpc' = "done"
    /\ UNCHANGED <<counts, m_data, m_file>>
    /\ UNCHANGED <<peaksVars, rangeVars, atacVars>>

MetricsNext == WriteMetrics \/ EncodeMetrics

SpecMetrics == MetricsInit /\ [][MetricsNext]_vars

---------------------------------------------------------------------------
(* calculate_encode_complexity_metrics: what the specification states *)

\* the fraction q equals n / d
RatEq(q, n, d) == q.den # 0 /\ d # 0 /\ q.num * d = n * q.den

---------------------------------------------------------------------------
(* atac.py: the fragment-size ranges and the filter of split_ATAC *)

\* lines 16-20
ATACRanges ==
    [NF |-> [label |-> "NF", min |-> 0, max |-> 100],
     MN |-> [label |-> "MN", min |-> 180, max |-> 247],
     DN |-> [label |-> "DN", min |-> 315, max |-> 473],
     TN |-> [label |-> "TN", min |-> 558, max |-> 615]]

\* ATACRanges.values(), in insertion order
RangeLabels == <<"NF", "MN", "DN", "TN">>

\* a slip: the bounds taken as part of the range
Filter_Inclusive(arange, len) ==
    len >= arange.min /\ len <= arange.max

\* line 88: -F "template_length > {arange.min} and template_length < {arange.max}"
Filter(arange, len) ==
    len > arange.min /\ len < arange.max

RangeInit ==
    /\ stage = "off" /\ fs = <<>> /\ indexed = {} /\ pc = <<>> /\ lab = <<>> /\ tx = <<>>
    /\ invoked = <<>> /\ call = <<>> /\ split_files = <<>> /\ ret = <<>>
    /\ data = <<>> /\ to_process = <<>> /\ after_process = <<>>
    /\ dispatched = <<>> /\ ppc = "off"
    /\ counts = <<0, 0, 0, 0>> /\ m_data = <<>> /\ m_file = <<>>
    /\ m_result = [kind |-> "none"] /\ mpc = "off"
    /\ tlen \in (-MaxTLen)..MaxTLen
    /\ selected = {}
    /\ rpc = "start"

\* lines 83-91: each range's command filters the alignment
SplitAlignment ==
    /\ rpc = "start"
    /\ selected' = { RangeLabels[k] : k \in
                       { h \in 1..Len(RangeLabels) :
                           Filter(ATACRanges[RangeLabels[h]], tlen) } }
    /\ rpc' = "done"
    /\ UNCHANGED tlen
    /\ UNCHANGED <<peaksVars, metricsVars, atacVars>>

RangeNext == SplitAlignment

SpecRanges == RangeInit /\ [][RangeNext]_vars

---------------------------------------------------------------------------
(* The fragment-size filter: what the specification states *)

\* C9: a template length L is selected for a range iff min < L < max, with
\* the ranges NF (0,100), MN (180,247), DN (315,473), TN (558,615); the
\* values 0, 100, 180, 247, 315, 473, 558 and 615 are selected for no range,
\* and every length is selected for at most one range.
C9_StrictBounds ==
    rpc = "done" =>
        /\ "NF" \in selected <=> (0 < tlen /\ tlen < 100)
        /\ "MN" \in selected <=> (180 < tlen /\ tlen < 247)
        /\ "DN" \in selected <=> (315 < tlen /\ tlen < 473)
        /\ "TN" \in selected <=> (558 < tlen /\ tlen < 615)
        /\ tlen \in {0, 100, 180, 247, 315, 473, 558, 615} => selected = {}
        /\ Cardinality(selected) <= 1

C9_Witness ==
    /\ rpc = "done"
    /\ tlen = 247
    /\ selected = {}

---------------------------------------------------------------------------
(* atac.py: the file-producing operations *)

Procs == {"p1", "p2"}

\* dd.get_work_bam(data)
BamFile == "s1.bam"

\* line 84: f"{out_stem}-{arange.label}.bam"
OutFile == [NF |-> "s1-NF.bam", MN |-> "s1-MN.bam",
            DN |-> "s1-DN.bam", TN |-> "s1-TN.bam"]

\* lines 31-32
MetricsFile == "metrics/atac/s1-atac-metrics.csv"

\* line 106
AtaqvFile == "qc/s1/ataqv/s1.ataqv.json.gz"

\* line 117
AutosomalFile == "qc/s1/ataqv/autosomal.txt"

Files == { OutFile[RangeLabels[k]] : k \in 1..Len(RangeLabels) }
            \cup { MetricsFile, AtaqvFile, AutosomalFile }

\* utils.file_exists(path)
file_exists(files, path) == files[path] # "absent"

\* a slip: the cached metrics file not looked for
MetricsCached_Never(files) == FALSE

\* line 33
MetricsCached(files) == file_exists(files, MetricsFile)

\* a slip: the command's output sent to the final path
CmdOutput_Final(final) == final

\* lines 39, 47, 89, 125, 142: the body of the transaction writes to the
\* transaction's temporary path
CmdOutput(final) == "tx"

\* a write of the transaction's body to its output, so far incomplete
WritePartial(p, final) ==
    IF CmdOutput(final) = "tx"
    THEN /\ tx' = [tx EXCEPT ![p] = "partial"]
         /\ fs' = fs
    ELSE /\ fs' = [fs EXCEPT ![final] = "partial"]
         /\ tx' = tx

\* file_transaction: the body ended without an exception, its output is
\* complete, and the temporary file, if written, replaces the final path
Promote(p, final) ==
    /\ fs' = [fs EXCEPT ![final] = "complete"]
    /\ tx' = [tx EXCEPT ![p] = "none"]

\* a slip: any assay method accepted
IsAtac_Any(method) == TRUE

\* line 99
IsAtac(method) == method = "atac"

\* get_NF_peaks: the first file that ends with narrowPeak or broadPeak
RECURSIVE get_NF_peaks(_)
get_NF_peaks(peak_files) ==
    IF peak_files = <<>> THEN "None"
    ELSE IF Head(peak_files) \in {"NF_peaks.narrowPeak", "NF_peaks.broadPeak"}
         THEN Head(peak_files)
         ELSE get_NF_peaks(Tail(peak_files))

\* the inputs of run_ataqv: the assay method, data.peaks_files.NF.macs2,
\* data.atac.align.NF, whether config_utils.get_program resolves ataqv, and
\* chromhacks.get_mitochondrial_chroms(data)
AtaqvInputs ==
    [method : {"atac", "chip"},
     peak_files : { <<>>, <<"NF_peaks.xls", "NF_peaks.narrowPeak">> },
     nf_bam : {"None", OutFile.NF},
     ataqv : {"None", "ataqv"},
     mito : { <<>>, <<"chrM">> }]

\* The pipeline runs its stages one after the other; the processes of a
\* stage all run the stage's operation.
Stages == {"calculate_complexity_metrics", "split_ATAC", "run_ataqv"}

Idle(p) == pc[p] = "idle"

\* the process is free to be handed the operation op
Free(p, op) == Idle(p) /\ stage = op

Goto(p, pos) == pc' = [pc EXCEPT ![p] = pos]

Return(p, value) ==
    /\ pc' = [pc EXCEPT ![p] = "idle"]
    /\ ret' = [ret EXCEPT ![p] = value]

Begin(p, c) ==
    /\ call' = [call EXCEPT ![p] = c]
    /\ invoked' = [invoked EXCEPT ![p] = {}]

Invoke(p, what) == invoked' = [invoked EXCEPT ![p] = @ \cup {what}]

Others == <<peaksVars, metricsVars, rangeVars, stage>>

AtacInit ==
    /\ data = <<>> /\ to_process = <<>> /\ after_process = <<>>
    /\ dispatched = <<>> /\ ppc = "off"
    /\ counts = <<0, 0, 0, 0>> /\ m_data = <<>> /\ m_file = <<>>
    /\ m_result = [kind |-> "none"] /\ mpc = "off"
    /\ tlen = 0 /\ selected = {} /\ rpc = "off"
    /\ stage \in Stages
    /\ fs = [f \in Files |-> "absent"]
    /\ indexed = {}
    /\ pc = [p \in Procs |-> "idle"]
    /\ lab = [p \in Procs |-> 0]
    /\ tx = [p \in Procs |-> "none"]
    /\ invoked = [p \in Procs |-> {}]
    /\ call = [p \in Procs |-> [op |-> "none"]]
    /\ split_files = [p \in Procs |-> <<>>]
    /\ ret = [p \in Procs |-> [outcome |-> "none"]]

(* calculate_complexity_metrics *)

\* lines 33-35: the metrics file is there
MetricsSkip(p) ==
    /\ Free(p, "calculate_complexity_metrics")
    /\ MetricsCached(fs)
    /\ Begin(p, [op |-> "calculate_complexity_metrics",
                 cached |-> file_exists(fs, MetricsFile)])
    /\ Return(p, [outcome |-> "ok",
                  atac |-> [complexity_metrics_file |-> MetricsFile]])
    /\ UNCHANGED <<fs, indexed, lab, tx, split_files, Others>>

\* lines 33, 37: bam.sort called
MetricsSort(p) ==
    /\ Free(p, "calculate_complexity_metrics")
    /\ ~MetricsCached(fs)
    /\ call' = [call EXCEPT ![p] =
                  [op |-> "calculate_complexity_metrics",
                   cached |-> file_exists(fs, MetricsFile)]]
    /\ invoked' = [invoked EXCEPT ![p] = {"bam.sort"}]
    /\ Goto(p, "metrics_sort")
    /\ UNCHANGED <<fs, indexed, lab, tx, split_files, ret, Others>>

\* lines 38-40: the transaction entered and the header written
MetricsHeader(p) ==
    /\ pc[p] = "metrics_sort"
    /\ WritePartial(p, MetricsFile)
    /\ Goto(p, "metrics_tx")
    /\ UNCHANGED <<indexed, lab, invoked, call, split_files, ret, Others>>

\* line 49: do.run called
MetricsRun(p) ==
    /\ pc[p] = "metrics_tx"
    /\ Invoke(p, "do.run")
    /\ Goto(p, "metrics_cmd")
    /\ UNCHANGED <<fs, indexed, lab, tx, call, split_files, ret, Others>>

\* lines 49-51: the command succeeded
MetricsDone(p) ==
    /\ pc[p] = "metrics_cmd"
    /\ Promote(p, MetricsFile)
    /\ Return(p, [outcome |-> "ok",
                  atac |-> [complexity_metrics_file |-> MetricsFile]])
    /\ UNCHANGED <<indexed, lab, invoked, call, split_files, Others>>

(* split_ATAC *)

AllSplit(files) ==
    \A k \in 1..Len(RangeLabels) : file_exists(files, OutFile[RangeLabels[k]])

\* lines 77-82
SplitBegin(p) ==
    /\ Free(p, "split_ATAC")
    /\ Begin(p, [op |-> "split_ATAC", cached |-> AllSplit(fs)])
    /\ lab' = [lab EXCEPT ![p] = 1]
    /\ split_files' = [split_files EXCEPT ![p] = <<>>]
    /\ Goto(p, "split_loop")
    /\ UNCHANGED <<fs, indexed, tx, ret, Others>>

\* lines 85, 93: the range's BAM is there
SplitSkip(p) ==
    /\ pc[p] = "split_loop"
    /\ lab[p] <= Len(RangeLabels)
    /\ file_exists(fs, OutFile[RangeLabels[lab[p]]])
    /\ split_files' = [split_files EXCEPT ![p] =
                         Assoc(@, RangeLabels[lab[p]], OutFile[RangeLabels[lab[p]]])]
    /\ lab' = [lab EXCEPT ![p] = @ + 1]
    /\ UNCHANGED <<fs, indexed, pc, tx, invoked, call, ret, Others>>

\* lines 85-91: the transaction entered and do.run called
SplitRun(p) ==
    /\ pc[p] = "split_loop"
    /\ lab[p] <= Len(RangeLabels)
    /\ ~file_exists(fs, OutFile[RangeLabels[lab[p]]])
    /\ Invoke(p, "do.run")
    /\ WritePartial(p, OutFile[RangeLabels[lab[p]]])
    /\ Goto(p, "split_cmd")
    /\ UNCHANGED <<indexed, lab, call, split_files, ret, Others>>

\* lines 91-92: the command succeeded, the transaction left, bam.index called
SplitPromote(p) ==
    /\ pc[p] = "split_cmd"
    /\ Promote(p, OutFile[RangeLabels[lab[p]]])
    /\ Invoke(p, "bam.index")
    /\ Goto(p, "split_index")
    /\ UNCHANGED <<indexed, lab, call, split_files, ret, Others>>

\* lines 92-93: the index made
SplitIndexed(p) ==
    /\ pc[p] = "split_index"
    /\ indexed' = indexed \cup { RangeLabels[lab[p]] }
    /\ split_files' = [split_files EXCEPT ![p] =
                         Assoc(@, RangeLabels[lab[p]], OutFile[RangeLabels[lab[p]]])]
    /\ lab' = [lab EXCEPT ![p] = @ + 1]
    /\ Goto(p, "split_loop")
    /\ UNCHANGED <<fs, tx, invoked, call, ret, Others>>

\* lines 94-96
SplitReturn(p) ==
    /\ pc[p] = "split_loop"
    /\ lab[p] > Len(RangeLabels)
    /\ Return(p, [outcome |-> "ok",
                  atac |-> [align |-> Assoc(split_files[p], "full", BamFile)]])
    /\ lab' = [lab EXCEPT ![p] = 0]
    /\ split_files' = [split_files EXCEPT ![p] = <<>>]
    /\ UNCHANGED <<fs, indexed, tx, invoked, call, Others>>

(* run_ataqv *)

\* lines 99-112: not an ATAC sample, or no peak file, or no BAM
AtaqvSkip(p) ==
    /\ Free(p, "run_ataqv")
    /\ \E in \in AtaqvInputs :
          /\ \/ ~IsAtac(in.method)
             \/ get_NF_peaks(in.peak_files) = "None"
             \/ in.nf_bam = "None"
          /\ Begin(p, [op |-> "run_ataqv", in |-> in,
                       cached |-> file_exists(fs, AtaqvFile)])
    /\ Return(p, [outcome |-> "None"])
    /\ UNCHANGED <<fs, indexed, lab, tx, split_files, Others>>

\* lines 113-114: the report is there
AtaqvCached(p) ==
    /\ Free(p, "run_ataqv")
    /\ \E in \in AtaqvInputs :
          /\ IsAtac(in.method)
          /\ get_NF_peaks(in.peak_files) # "None"
          /\ in.nf_bam # "None"
          /\ Begin(p, [op |-> "run_ataqv", in |-> in,
                       cached |-> file_exists(fs, AtaqvFile)])
    /\ file_exists(fs, AtaqvFile)
    /\ Return(p, [outcome |-> "path", path |-> AtaqvFile])
    /\ UNCHANGED <<fs, indexed, lab, tx, split_files, Others>>

\* lines 115-116: gtf.get_tss_bed called
AtaqvTss(p) ==
    /\ Free(p, "run_ataqv")
    /\ \E in \in AtaqvInputs :
          /\ IsAtac(in.method)
          /\ get_NF_peaks(in.peak_files) # "None"
          /\ in.nf_bam # "None"
          /\ Begin(p, [op |-> "run_ataqv", in |-> in,
                       cached |-> file_exists(fs, AtaqvFile)])
    /\ ~file_exists(fs, AtaqvFile)
    /\ Goto(p, "ataqv_tss")
    /\ UNCHANGED <<fs, indexed, lab, tx, split_files, ret, Others>>

\* lines 118, 138-139: the autosomal reference is there
AutosomalSkip(p) ==
    /\ pc[p] = "ataqv_tss"
    /\ file_exists(fs, AutosomalFile)
    /\ Goto(p, "ataqv_resolve")
    /\ UNCHANGED <<fs, indexed, lab, tx, invoked, call, split_files, ret, Others>>

\* lines 140-144: the autosomal reference being written
AutosomalWrite(p) ==
    /\ pc[p] = "ataqv_tss"
    /\ ~file_exists(fs, AutosomalFile)
    /\ WritePartial(p, AutosomalFile)
    /\ Goto(p, "ataqv_autosomal")
    /\ UNCHANGED <<indexed, lab, invoked, call, split_files, ret, Others>>

\* lines 141-145: the transaction left
AutosomalDone(p) ==
    /\ pc[p] = "ataqv_autosomal"
    /\ Promote(p, AutosomalFile)
    /\ Goto(p, "ataqv_resolve")
    /\ UNCHANGED <<indexed, lab, invoked, call, split_files, ret, Others>>

\* line 120: [0] of an empty list of mitochondrial chromosomes
AtaqvNoMito(p) ==
    /\ pc[p] = "ataqv_resolve"
    /\ call[p].in.mito = <<>>
    /\ Return(p, [outcome |-> "raised", error |-> "IndexError"])
    /\ UNCHANGED <<fs, indexed, lab, tx, invoked, call, split_files, Others>>

\* lines 121-123: the binary is not resolved
AtaqvNoBinary(p) ==
    /\ pc[p] = "ataqv_resolve"
    /\ call[p].in.mito # <<>>
    /\ call[p].in.ataqv = "None"
    /\ Return(p, [outcome |-> "None"])
    /\ UNCHANGED <<fs, indexed, lab, tx, invoked, call, split_files, Others>>

\* lines 124-130: the transaction entered and do.run called
AtaqvRun(p) ==
    /\ pc[p] = "ataqv_resolve"
    /\ call[p].in.mito # <<>>
    /\ call[p].in.ataqv # "None"
    /\ Invoke(p, "do.run")
    /\ WritePartial(p, AtaqvFile)
    /\ Goto(p, "ataqv_cmd")
    /\ UNCHANGED <<indexed, lab, call, split_files, ret, Others>>

\* lines 130-131: the command succeeded
AtaqvDone(p) ==
    /\ pc[p] = "ataqv_cmd"
    /\ Promote(p, AtaqvFile)
    /\ Return(p, [outcome |-> "path", path |-> AtaqvFile])
    /\ UNCHANGED <<indexed, lab, invoked, call, split_files, Others>>

(* failures *)

\* the positions at which an external call is running
ExternalCall ==
    {"metrics_sort", "metrics_cmd", "split_cmd", "split_index",
     "ataqv_tss", "ataqv_cmd"}

\* the external call raises (do.run on a non-zero exit); file_transaction
\* removes the temporary file and the exception ends the operation
Raise(p) ==
    /\ pc[p] \in ExternalCall
    /\ tx' = [tx EXCEPT ![p] = "none"]
    /\ Return(p, [outcome |-> "raised", error |-> "external"])
    /\ lab' = [lab EXCEPT ![p] = 0]
    /\ split_files' = [split_files EXCEPT ![p] = <<>>]
    /\ UNCHANGED <<fs, indexed, invoked, call, Others>>

\* the process is killed; its temporary file is never promoted
Crash(p) ==
    /\ ~Idle(p)
    /\ tx' = [tx EXCEPT ![p] = "none"]
    /\ Return(p, [outcome |-> "crashed"])
    /\ lab' = [lab EXCEPT ![p] = 0]
    /\ split_files' = [split_files EXCEPT ![p] = <<>>]
    /\ UNCHANGED <<fs, indexed, invoked, call, Others>>

AtacNext ==
    \E p \in Procs :
        \/ MetricsSkip(p) \/ MetricsSort(p) \/ MetricsHeader(p)
        \/ MetricsRun(p) \/ MetricsDone(p)
        \/ SplitBegin(p) \/ SplitSkip(p) \/ SplitRun(p) \/ SplitPromote(p)
        \/ SplitIndexed(p) \/ SplitReturn(p)
        \/ AtaqvSkip(p) \/ AtaqvCached(p) \/ AtaqvTss(p)
        \/ AutosomalSkip(p) \/ AutosomalWrite(p) \/ AutosomalDone(p)
        \/ AtaqvNoMito(p) \/ AtaqvNoBinary(p) \/ AtaqvRun(p) \/ AtaqvDone(p)
        \/ Raise(p) \/ Crash(p)

SpecAtac == AtacInit /\ [][AtacNext]_vars

---------------------------------------------------------------------------
(* Peak-calling orchestration: what the specification states *)

\* the batch id b is one of the candidate's batch ids (a candidate with one
\* batch id has the list of that one id)
BatchListContains(batch, b) ==
    \E k \in 1..Len(batch.val) : batch.val[k] = b

IsControlFor(d, j, i) ==
    /\ d[j].phenotype = "input"
    /\ BatchListContains(d[j].batch, d[i].batch.val[1])

\* the first control of sample i in collection order, 0 when there is none
ControlOf(d, i) ==
    IF \E j \in 1..Len(d) : IsControlFor(d, j, i)
    THEN CHOOSE j \in 1..Len(d) :
             /\ IsControlFor(d, j, i)
             /\ \A h \in 1..(j - 1) : ~IsControlFor(d, h, i)
    ELSE 0

ConfiguredCallers(sample) ==
    IF "peakcaller" \in DOMAIN sample
    THEN { sample.peakcaller[k] : k \in 1..Len(sample.peakcaller) }
    ELSE {}

ExpectedPairs(d) ==
    { p \in (1..Len(d)) \X get_callers :
        /\ d[p[1]].phenotype = "chip"
        /\ p[2] \in ConfiguredCallers(d[p[1]])
        /\ ControlOf(d, p[1]) # 0 }

TasksFor(d, p) ==
    { k \in 1..Len(to_process) :
        /\ to_process[k].name = d[p[1]].name
        /\ to_process[k].peak_fn = p[2]
        /\ to_process[k].work_bam_input = d[ControlOf(d, p[1])].work_bam }

SampleIndex(d, name) == CHOOSE i \in 1..Len(d) : d[i].name = name

\* C1: the batch prepared for the dispatcher holds exactly one task for every
\* (sample, caller) pair with phenotype "chip", the caller configured and in
\* the registry, and a paired control in the collection; the task carries the
\* caller as peak_fn and the control's work BAM as work_bam_input; there is
\* no other task.
C1_ExactlyThePairedChipTasks ==
    ppc # "start" =>
        /\ Len(to_process) = Cardinality(ExpectedPairs(data))
        /\ \A p \in ExpectedPairs(data) : Cardinality(TasksFor(data, p)) = 1

\* C2 as stated: run_parallel is invoked exactly once per call, whatever the
\* input collection.
C2_InvokedExactlyOnce ==
    ppc = "done" => Len(dispatched) = 1

\* C2 as amended: run_parallel is invoked at most once per call: exactly
\* once, with all prepared tasks together, when at least one task was
\* prepared, and not at all when none was.
C2_InvokedOnceIffTasks ==
    /\ Len(dispatched) <= 1
    /\ ppc = "done" =>
          IF to_process # <<>>
          THEN dispatched = <<to_process>>
          ELSE dispatched = <<>>

C2_Witness ==
    /\ ppc = "done"
    /\ Len(to_process) >= 2
    /\ dispatched = <<to_process>>

\* C3: in the merge, an original sample with no result of its name is left
\* unchanged; a result of its name whose peaks_file is "error" leaves it
\* unchanged, its peaks_file (set or not) included; a result of its name
\* whose peaks_file is not "error" sets its peaks_file to the result's and
\* changes nothing else.
C3_MergeSafety ==
    [][ (ppc = "dispatched" /\ ppc' = "done") =>
          \A i \in 1..Len(data) :
            LET res == { j \in 1..Len(after_process) :
                           after_process[j].name = data[i].name }
            IN  /\ res = {} => data'[i] = data[i]
                /\ \A j \in res :
                     IF after_process[j].peaks_file = "error"
                     THEN data'[i] = data[i]
                     ELSE data'[i] = Assoc(data[i], "peaks_file",
                                           after_process[j].peaks_file)
      ]_vars

C3_Witness ==
    /\ ppc = "done"
    /\ \E i, h \in 1..Len(data) : \E j, k \in 1..Len(after_process) :
          /\ after_process[j].name = data[i].name
          /\ after_process[j].peaks_file = "error"
          /\ "peaks_file" \in DOMAIN after_process[j]
          /\ "peaks_file" \in DOMAIN data[i]
          /\ data[i].peaks_file = "old"
          /\ after_process[k].name = data[h].name
          /\ after_process[k].peaks_file = "new"
          /\ data[h].peaks_file = "new"

\* C4: the control of every prepared task is the first sample group, in
\* collection order, whose phenotype is "input" and whose batch ids contain
\* the chip sample's batch id; no other sample's work BAM is chosen.
C4_FirstMatchingControl ==
    ppc # "start" =>
        \A k \in 1..Len(to_process) :
            LET i == SampleIndex(data, to_process[k].name)
            IN  /\ ControlOf(data, i) # 0
                /\ to_process[k].work_bam_input
                       = data[ControlOf(data, i)].work_bam

---------------------------------------------------------------------------
(* The file-producing operations: what the specification states *)

AllLabels == { RangeLabels[k] : k \in 1..Len(RangeLabels) }

\* the process has returned from op, not killed on the way
Returned(p, op) ==
    /\ Idle(p)
    /\ call[p].op = op
    /\ ret[p].outcome # "crashed"

\* C5: a call of calculate_complexity_metrics that finds the metrics file,
\* or of split_ATAC that finds all four range BAMs, invokes no external call
\* (no sort, no command, no index), changes no file and no index, raises
\* nothing, and returns the record with the paths set.
C5_CachedCallRecomputesNothing ==
    [][ \A p \in Procs :
          (/\ call'[p].op \in {"calculate_complexity_metrics", "split_ATAC"}
           /\ call'[p].cached) =>
              /\ invoked'[p] = {}
              /\ <<pc[p], lab[p], ret[p], call[p]>>
                     # <<pc'[p], lab'[p], ret'[p], call'[p]>>
                   => fs' = fs /\ indexed' = indexed
              /\ (pc'[p] = "idle" /\ ret'[p].outcome # "crashed") =>
                   /\ ret'[p].outcome = "ok"
                   /\ IF call'[p].op = "split_ATAC"
                      THEN ret'[p].atac.align =
                             [k \in AllLabels \cup {"full"} |->
                                IF k = "full" THEN BamFile ELSE OutFile[k]]
                      ELSE ret'[p].atac.complexity_metrics_file = MetricsFile
      ]_vars

C5_Witness ==
    \E p, q \in Procs :
        /\ Returned(p, "split_ATAC")
        /\ call[p].cached
        /\ ret[p].outcome = "ok"
        /\ p # q
        /\ Returned(q, "split_ATAC")
        /\ ~call[q].cached
        /\ ret[q].outcome = "ok"
        /\ "do.run" \in invoked[q]

\* C6: the file at every final output path is absent or the complete output
\* of a command that succeeded, in every state; a complete file stays
\* complete; and a call that ends in a failure or a kill leaves every final
\* path as it was.
C6_TransactionalOutputs ==
    [][ /\ \A f \in Files : fs'[f] \in {"absent", "complete"}
        /\ \A f \in Files : fs[f] = "complete" => fs'[f] = "complete"
        /\ \A p \in Procs :
             (/\ ~Idle(p)
              /\ pc'[p] = "idle"
              /\ ret'[p].outcome \in {"raised", "crashed"}) => fs' = fs
      ]_vars

C6_Witness ==
    \E p \in Procs :
        /\ Returned(p, "split_ATAC")
        /\ ret[p].outcome = "raised"
        /\ invoked[p] = {"do.run"}
        /\ fs[OutFile.NF] = "complete"
        /\ fs[OutFile.MN] = "absent"

\* one of the first three conditions of run_ataqv's skip
EarlySkip(in) ==
    \/ in.method # "atac"
    \/ \A k \in 1..Len(in.peak_files) :
          in.peak_files[k] \notin {"NF_peaks.narrowPeak", "NF_peaks.broadPeak"}
    \/ in.nf_bam = "None"

\* the call ended in the failure of an external utility
ExternalFailure(p) ==
    ret[p].outcome = "raised" /\ ret[p].error = "external"

C10_ReturnedSplitIsIndexed ==
    \A p \in Procs :
        (Returned(p, "split_ATAC") /\ ret[p].outcome = "ok") =>
            /\ DOMAIN ret[p].atac.align = AllLabels \cup {"full"}
            /\ ret[p].atac.align.full = BamFile
            /\ \A l \in AllLabels :
                  /\ fs[ret[p].atac.align[l]] = "complete"
                  /\ l \in indexed

====
